---------------------------- MODULE Spec2Model ----------------------------
(***************************************************************************)
(* Ledger balance and settlement engine of group_pay_web                   *)
(* (backend/crud.py, backend/schemas.py, backend/routers, backend/services)*)
(*                                                                         *)
(* Money is a Decimal in the source.  Here an amount is an integer number  *)
(* of thousandths of a currency unit, so that the Numeric(10, 2) columns   *)
(* hold multiples of Cent and the 0.005 dust threshold is the integer 5.   *)
(* One group is modelled; its rows are the group_members, bills and        *)
(* payments tables restricted to that group.                               *)
(***************************************************************************)
EXTENDS Integers, Sequences, FiniteSets, TLC

VARIABLES
    members,                    \* group_members rows: user_id -> role
    bills,                      \* bills rows with their nested rows, oldest first
    payments,                   \* payments rows, oldest first
    pc,                         \* calculate_suggested_settlements: position
    net_balances,               \* its argument, a dict in iteration order
    debtor_list,
    creditor_list,
    debtor_idx,
    creditor_idx,
    suggested_payments,
    new_amount_owed_by_payer,   \* Unbound until first assigned
    new_amount_due_to_payee,
    user1_id,                   \* calculate_balance_between_two_users: arguments
    user2_id,
    u1_owes_u2,                 \* its running total
    group_bills,                \* the fetched bills it has not looked at yet
    balances_cache,             \* the cache entry of read_group_balances
    balances_response,          \* the response of read_group_balances being sent
    departing,                  \* leave_group / remove_member: the user whose balance check passed, 0 when none
    in_transaction,             \* create_new_payment: rows flushed in its session, not committed
    payment_response            \* the response of create_new_payment being sent

ledger_vars == <<members, bills, payments>>

planner_vars == <<pc, net_balances, debtor_list, creditor_list, debtor_idx,
                  creditor_idx, suggested_payments,
                  new_amount_owed_by_payer, new_amount_due_to_payee>>

bilateral_vars == <<user1_id, user2_id, u1_owes_u2, group_bills>>

cache_vars == <<balances_cache, balances_response>>

request_vars == <<departing, in_transaction, payment_response>>

vars == <<members, bills, payments, pc, net_balances, debtor_list,
          creditor_list, debtor_idx, creditor_idx, suggested_payments,
          new_amount_owed_by_payer, new_amount_due_to_payee,
          user1_id, user2_id, u1_owes_u2, group_bills,
          balances_cache, balances_response, departing, in_transaction,
          payment_response>>

---------------------------------------------------------------------------
(* Units and bounds *)

\* one whole currency unit ("share += 1"), in thousandths
Unit == 1000

\* Decimal("0.01"), in thousandths
Cent == 10

\* Decimal("0.005"), in thousandths
Dust == 5

\* limit=1000 of the aggregator's bill and payment queries
AggregatorLimit == 1000

\* the model stores at most this many bills / payments in the group
MaxBills == 2

MaxPayments == 1

\* users table; usernames sort like the ids
Users == {1, 2, 3}

---------------------------------------------------------------------------
(* Generic helpers *)

Min(a, b) == IF a <= b THEN a ELSE b

Abs(a) == IF a < 0 THEN -a ELSE a

RECURSIVE SumFirst(_, _)
\* s[1] + ... + s[n]
SumFirst(s, n) == IF n = 0 THEN 0 ELSE s[n] + SumFirst(s, n - 1)

SumSeq(s) == SumFirst(s, Len(s))

RECURSIVE SumSet(_, _)
\* sum of f[x] over the finite set S
SumSet(S, f) ==
    IF S = {} THEN 0
    ELSE LET x == CHOOSE y \in S : TRUE IN f[x] + SumSet(S \ {x}, f)

RECURSIVE SortedSeq(_)
\* the elements of a finite set of integers in ascending order
SortedSeq(S) ==
    IF S = {} THEN <<>>
    ELSE LET m == CHOOSE x \in S : \A y \in S : x <= y
         IN <<m>> \o SortedSeq(S \ {m})

Reverse(s) == [i \in 1..Len(s) |-> s[Len(s) + 1 - i]]

Take(s, n) == SubSeq(s, 1, Min(n, Len(s)))

RemoveAt(s, i) == SubSeq(s, 1, i - 1) \o SubSeq(s, i + 1, Len(s))

UserIds(rows) == {rows[i].user_id : i \in 1..Len(rows)}

NoDuplicateUser(rows) ==
    \A i, j \in 1..Len(rows) : rows[i].user_id = rows[j].user_id => i = j

\* next((row for row in rows if row.user_id == user_id), None) as an index, 0 for None
RECURSIVE FirstIndexFrom(_, _, _)
FirstIndexFrom(rows, user_id, i) ==
    IF i > Len(rows) THEN 0
    ELSE IF rows[i].user_id = user_id THEN i
    ELSE FirstIndexFrom(rows, user_id, i + 1)

FirstIndex(rows, user_id) == FirstIndexFrom(rows, user_id, 1)

---------------------------------------------------------------------------
(* Dicts: a Python dict is its sequence of entries in insertion order *)

DictKeys(d) == {d[i].user_id : i \in 1..Len(d)}

DictGet(d, k) == d[FirstIndex(d, k)].amount

\* d[k] += delta for a key that is present
DictAdd(d, k, delta) == [d EXCEPT ![FirstIndex(d, k)].amount = @ + delta]

DictSum(d) == SumSeq([i \in 1..Len(d) |-> d[i].amount])

---------------------------------------------------------------------------
(* Decimal quantize *)

\* Decimal.quantize(Decimal("0.01")) under the default context, whose
\* rounding is ROUND_HALF_EVEN
quantize_default(x) ==
    LET a == Abs(x)
        q == a \div Cent
        r == a % Cent
        up == \/ 2 * r > Cent
              \/ 2 * r = Cent /\ q % 2 = 1
        m == (IF up THEN q + 1 ELSE q) * Cent
    IN IF x < 0 THEN -m ELSE m

\* variant: rounds half up to whole currency units
quantize_to_units(x) ==
    LET a == Abs(x)
        q == a \div Unit
        r == a % Unit
        m == (IF 2 * r >= Unit THEN q + 1 ELSE q) * Unit
    IN IF x < 0 THEN -m ELSE m

\* Decimal.quantize(Decimal("0.01"), rounding=ROUND_HALF_UP)
quantize_half_up(x) ==
    LET a == Abs(x)
        q == a \div Cent
        r == a % Cent
        m == (IF 2 * r >= Cent THEN q + 1 ELSE q) * Cent
    IN IF x < 0 THEN -m ELSE m

\* Decimal.quantize(Decimal("1"), rounding=ROUND_HALF_UP)
quantize_one_half_up(x) ==
    LET a == Abs(x)
        q == a \div Unit
        r == a % Unit
        m == (IF 2 * r >= Unit THEN q + 1 ELSE q) * Unit
    IN IF x < 0 THEN -m ELSE m

\* variant: Decimal.quantize(Decimal("1"), rounding=ROUND_FLOOR)
quantize_one_floor(x) == (x \div Unit) * Unit

\* Decimal.quantize(Decimal("1")) under the default context (ROUND_HALF_EVEN)
quantize_one_default(x) ==
    LET a == Abs(x)
        q == a \div Unit
        r == a % Unit
        up == \/ 2 * r > Unit
              \/ 2 * r = Unit /\ q % 2 = 1
        m == (IF up THEN q + 1 ELSE q) * Unit
    IN IF x < 0 THEN -m ELSE m

---------------------------------------------------------------------------
(* Request payloads (schemas.BillCreate / BillUpdate / PaymentCreate) *)

IP(u, a) == [user_id |-> u, amount_paid |-> a]

BP(u, a) == [user_id |-> u, amount_owed |-> a]

SplitIn(u, q) == [user_id |-> u, quantity |-> q]

ItemIn(p, q, s) == [unit_price |-> p, quantity |-> q, splits |-> s]

BillIn(m, t, ips, its, parts) ==
    [split_method |-> m, total_amount |-> t, initial_payments |-> ips,
     items |-> its, bill_parts |-> parts]

\* equal-split payloads: whole and fractional totals, unpaid or fronted
EqualInputs ==
    {BillIn("equal", 90000, <<IP(2, 90000)>>, <<>>, <<>>),
     BillIn("equal", 100000, <<>>, <<>>, <<>>),
     BillIn("equal", 100500, <<IP(2, 100500)>>, <<>>, <<>>)}

\* exact-split payloads; the first sums to 90.00, the others are missing,
\* incomplete, off by one cent, or name the same user twice
ExactInputs ==
    {BillIn("exact", 90000, <<IP(2, 90000)>>, <<>>,
            <<BP(2, 30500), BP(3, 59500)>>)}
    \cup
    {BillIn("exact", 90000, <<>>, <<>>, parts) :
        parts \in {<<>>, <<BP(3, 30000)>>, <<BP(1, 89990)>>,
                   <<BP(1, 45000), BP(1, 45000)>>}}

\* item-split payloads: two valid ones, and ones whose split quantities fall
\* short of the item's, that have no item, or that carry bill parts
ItemInputs ==
    {BillIn("item", 20000, <<>>, its, <<>>) :
        its \in {<<ItemIn(10000, 2, <<SplitIn(1, 1), SplitIn(2, 1)>>)>>,
                 <<ItemIn(10000, 2, <<SplitIn(1, 1)>>)>>,
                 <<>>}}
    \cup
    {BillIn("item", 30000, <<>>,
            <<ItemIn(10000, 2, <<SplitIn(3, 2)>>),
              ItemIn(5000, 2, <<SplitIn(3, 1), SplitIn(1, 1)>>)>>, <<>>)}
    \cup
    {BillIn("item", 20000, <<>>,
            <<ItemIn(10000, 2, <<SplitIn(1, 1), SplitIn(2, 1)>>)>>,
            <<BP(1, 20000)>>)}

\* payloads that reach the other branches of validate_splits and create_bill
OtherInputs ==
    {BillIn("percentage", 90000, <<IP(2, 90000)>>, <<>>, <<BP(1, 90000)>>),
     BillIn("equal", 20000, <<IP(2, 90000)>>, <<>>, <<>>),
     BillIn("equal", 20000, <<>>, <<ItemIn(10000, 1, <<>>)>>, <<>>),
     BillIn("equal", 20000, <<>>,
            <<ItemIn(10000, 2, <<SplitIn(1, 2)>>)>>, <<>>)}

BillInputs == EqualInputs \cup ExactInputs \cup ItemInputs \cup OtherInputs

\* PaymentCreate.amount / PaymentUpdate.amount
PaymentAmounts == {30000, 60000}

\* the users whose requests create bills in this model
BillCreators == {1}

\* the (payer, payee) pairs of the payment requests in this model
PaymentPairs == {<<1, 2>>, <<2, 3>>, <<3, 3>>}

---------------------------------------------------------------------------
(* schemas.validate_splits: TRUE when no ValueError is raised *)

total_price(items) ==
    SumSeq([i \in 1..Len(items) |-> items[i].unit_price * items[i].quantity])

\* variant: the item's own quantity stands for the sum of its split quantities
declared_quantity(item_data) == item_data.quantity

total_split_quantity(item_data) ==
    SumSeq([i \in 1..Len(item_data.splits) |-> item_data.splits[i].quantity])

\* variant: only the sum of the initial payments is checked
validate_payments_only(split_method, initial_payments, items, total_amount, bill_parts) ==
    SumSeq([i \in 1..Len(initial_payments) |-> initial_payments[i].amount_paid])
        <= total_amount

validate_splits(split_method, initial_payments, items, total_amount, bill_parts) ==
    LET total_initial_payments ==
            SumSeq([i \in 1..Len(initial_payments) |-> initial_payments[i].amount_paid])
        total_split_amount ==
            SumSeq([i \in 1..Len(bill_parts) |-> bill_parts[i].amount_owed])
    IN /\ ~(total_initial_payments > total_amount)
       /\ IF items = <<>>
          THEN split_method # "item"
          ELSE ~(Abs(total_price(items) - total_amount) > Cent)
       /\ CASE split_method = "exact" ->
                 /\ bill_parts # <<>>
                 /\ Abs(total_split_amount - total_amount) < Cent
            [] split_method = "item" ->
                 /\ bill_parts = <<>>
                 /\ \A idx \in 1..Len(items) :
                        /\ items[idx].splits # <<>>
                        /\ total_split_quantity(items[idx]) = items[idx].quantity
            [] split_method = "equal" ->
                 /\ bill_parts = <<>>
                 /\ \A idx \in 1..Len(items) : items[idx].splits = <<>>
            [] OTHER -> TRUE

\* the Field(...) constraints of BillBase and its nested schemas
FieldConstraints(bill_in) ==
    /\ bill_in.total_amount > 0
    /\ \A i \in 1..Len(bill_in.initial_payments) :
           bill_in.initial_payments[i].amount_paid > 0
    /\ \A i \in 1..Len(bill_in.bill_parts) : bill_in.bill_parts[i].amount_owed >= 0
    /\ \A i \in 1..Len(bill_in.items) :
           /\ bill_in.items[i].unit_price > 0
           /\ bill_in.items[i].quantity > 0
           /\ \A j \in 1..Len(bill_in.items[i].splits) :
                  bill_in.items[i].splits[j].quantity > 0

\* BillCreate / BillUpdate parse without a validation error (else 422)
PayloadValid(bill_in) ==
    /\ FieldConstraints(bill_in)
    /\ validate_splits(bill_in.split_method, bill_in.initial_payments,
                       bill_in.items, bill_in.total_amount, bill_in.bill_parts)

\* the payloads whose parsing raises no validation error
ParsedBillInputs == {b \in BillInputs : PayloadValid(b)}

---------------------------------------------------------------------------
(* Membership queries *)

MemberIds == DOMAIN members

\* variant: every user of the users table, member of the group or not
every_user_id(mem) == SortedSeq(Users)

\* get_group_member_ids_and_names: the members ordered by username
get_group_member_ids(mem) == SortedSeq(DOMAIN mem)

\* count of member rows among user_ids == len(set(user_ids))
validate_member_ids_in_group(mem, user_ids) ==
    IF user_ids = {} THEN TRUE
    ELSE Cardinality(user_ids \cap DOMAIN mem) = Cardinality(user_ids)

\* bill_services.validate_bill_modification: TRUE when no 400 is raised
validate_bill_modification(mem, bill_in) ==
    LET payers == UserIds(bill_in.initial_payments)
        others ==
            IF bill_in.split_method = "percentage" /\ bill_in.bill_parts # <<>>
            THEN UserIds(bill_in.bill_parts)
            ELSE IF bill_in.split_method = "item" /\ bill_in.items # <<>>
            THEN UNION {UserIds(bill_in.items[i].splits) :
                            i \in 1..Len(bill_in.items)}
            ELSE {}
    IN validate_member_ids_in_group(mem, payers \cup others)

---------------------------------------------------------------------------
(* crud.create_bill / crud.update_bill: the rows written for a payload *)

\* base_share = total // n ; remainder = total % n ; share += 1 while i < remainder
equal_share(total_amount, num_members, i) ==
    LET base_share == (total_amount \div (Unit * num_members)) * Unit
        remainder  == total_amount - num_members * base_share
    IN IF (i - 1) * Unit < remainder THEN base_share + Unit ELSE base_share

equal_bill_parts(total_amount, current_member_ids) ==
    [i \in 1..Len(current_member_ids) |->
        BP(current_member_ids[i],
           equal_share(total_amount, Len(current_member_ids), i))]

stored_items(bill_in) ==
    [i \in 1..Len(bill_in.items) |->
        [unit_price |-> bill_in.items[i].unit_price,
         quantity |-> bill_in.items[i].quantity,
         bill_item_splits |->
            IF bill_in.split_method = "item" THEN bill_in.items[i].splits
            ELSE <<>>]]

stored_bill_parts(mem, bill_in) ==
    IF bill_in.split_method = "exact" THEN bill_in.bill_parts
    ELSE IF bill_in.split_method = "equal"
    THEN equal_bill_parts(bill_in.total_amount, get_group_member_ids(mem))
    ELSE <<>>

\* the primary keys of initial_payments, bill_part and bill_item_split and
\* the ENUM('equal', 'item', 'exact') of bills.split_method accept the rows
RowsAccepted(bill_in) ==
    /\ bill_in.split_method \in {"equal", "item", "exact"}
    /\ NoDuplicateUser(bill_in.initial_payments)
    /\ bill_in.split_method = "exact" => NoDuplicateUser(bill_in.bill_parts)
    /\ bill_in.split_method = "item" =>
           \A i \in 1..Len(bill_in.items) : NoDuplicateUser(bill_in.items[i].splits)

BillRow(mem, creator_id, bill_in) ==
    [created_by |-> creator_id,
     total_amount |-> bill_in.total_amount,
     split_method |-> bill_in.split_method,
     initial_payments |-> bill_in.initial_payments,
     items |-> stored_items(bill_in),
     bill_parts |-> stored_bill_parts(mem, bill_in)]

\* every check a parsed bill creation or update passes before its commit
BillAccepted(mem, bill_in) ==
    /\ validate_bill_modification(mem, bill_in)
    /\ RowsAccepted(bill_in)

---------------------------------------------------------------------------
(* crud.calculate_user_owed_for_bill *)

\* variant: charges the whole item to each user who has a split on it
item_cost_whole(item, user_id) ==
    LET k == FirstIndex(item.bill_item_splits, user_id)
    IN IF k = 0 THEN 0 ELSE item.unit_price * item.quantity

\* item.unit_price * user_split.quantity for the user's split of one item, if any
item_share_cost(item, user_id) ==
    LET k == FirstIndex(item.bill_item_splits, user_id)
    IN IF k = 0 THEN 0 ELSE item.unit_price * item.bill_item_splits[k].quantity

calculate_user_owed_for_bill(bill, user_id) ==
    LET total_owed_by_user ==
            IF bill.split_method \in {"equal", "exact"}
            THEN LET k == FirstIndex(bill.bill_parts, user_id)
                 IN IF k = 0 THEN 0 ELSE bill.bill_parts[k].amount_owed
            ELSE IF bill.split_method = "item"
            THEN SumSeq([i \in 1..Len(bill.items) |->
                            item_share_cost(bill.items[i], user_id)])
            ELSE 0
    IN quantize_half_up(total_owed_by_user)

---------------------------------------------------------------------------
(* crud.calculate_group_net_balances *)

\* ORDER BY created_at DESC ... LIMIT limit over a table kept oldest first
get_group_bills(table, limit) == Take(Reverse(table), limit)

get_group_payments(table, limit) == Take(Reverse(table), limit)

\* variant: balances[user_id] = balances.get(user_id, 0) + delta
add_always(balances, user_id, delta) ==
    IF user_id \in DictKeys(balances) THEN DictAdd(balances, user_id, delta)
    ELSE Append(balances, [user_id |-> user_id, amount |-> delta])

\* variant: balances[user_id] = delta, the earlier amount is overwritten
set_if_member(balances, user_id, delta) ==
    IF user_id \in DictKeys(balances)
    THEN [balances EXCEPT ![FirstIndex(balances, user_id)].amount = delta]
    ELSE balances

\* if user_id in balances: balances[user_id] += delta
add_if_member(balances, user_id, delta) ==
    IF user_id \in DictKeys(balances) THEN DictAdd(balances, user_id, delta)
    ELSE balances

RECURSIVE subtract_initial_payments(_, _)
subtract_initial_payments(balances, initial_payments) ==
    IF initial_payments = <<>> THEN balances
    ELSE subtract_initial_payments(
            add_if_member(balances, Head(initial_payments).user_id,
                          -Head(initial_payments).amount_paid),
            Tail(initial_payments))

bill_participant_ids(bill) ==
    UserIds(bill.bill_parts)
    \cup UNION {UserIds(bill.items[i].bill_item_splits) : i \in 1..Len(bill.items)}

\* the share added for one participant: only when it is strictly positive
owed_to_add(bill, user_id) ==
    LET amount_owed == calculate_user_owed_for_bill(bill, user_id)
    IN IF amount_owed > 0 THEN amount_owed ELSE 0

RECURSIVE add_participant_shares(_, _, _)
add_participant_shares(balances, bill, participant_ids) ==
    IF participant_ids = {} THEN balances
    ELSE LET user_id == CHOOSE u \in participant_ids : TRUE
         IN add_participant_shares(
                add_if_member(balances, user_id, owed_to_add(bill, user_id)),
                bill, participant_ids \ {user_id})

apply_bill(balances, bill) ==
    add_participant_shares(
        subtract_initial_payments(balances, bill.initial_payments),
        bill, bill_participant_ids(bill))

RECURSIVE apply_bills(_, _)
apply_bills(balances, bill_rows) ==
    IF bill_rows = <<>> THEN balances
    ELSE apply_bills(apply_bill(balances, Head(bill_rows)), Tail(bill_rows))

\* variant: the payee's balance is lowered like the payer's
payee_leg_subtracting(balances, payment) ==
    add_if_member(balances, payment.payee_id, -payment.amount)

\* the payee's leg of a payment
payee_leg(balances, payment) ==
    add_if_member(balances, payment.payee_id, payment.amount)

\* variant: the payer's leg is applied only when the payee is a member too
payer_leg_between_members(balances, payment) ==
    IF payment.payee_id \in DictKeys(balances)
    THEN add_if_member(balances, payment.payer_id, -payment.amount)
    ELSE balances

\* the payer's leg of a payment
payer_leg(balances, payment) ==
    add_if_member(balances, payment.payer_id, -payment.amount)

RECURSIVE apply_payments(_, _)
apply_payments(balances, payment_rows) ==
    IF payment_rows = <<>> THEN balances
    ELSE apply_payments(
            payee_leg(payer_leg(balances, Head(payment_rows)), Head(payment_rows)),
            Tail(payment_rows))

calculate_group_net_balances(mem, bill_table, payment_table) ==
    LET member_ids == get_group_member_ids(mem)
        zero == [i \in 1..Len(member_ids) |->
                    [user_id |-> member_ids[i], amount |-> 0]]
    IN IF member_ids = <<>> THEN <<>>
       ELSE apply_payments(
                apply_bills(zero, get_group_bills(bill_table, AggregatorLimit)),
                get_group_payments(payment_table, AggregatorLimit))

\* the balances of the group as stored now
NetBalances == calculate_group_net_balances(members, bills, payments)

\* net_balances.get(user_id): 0 stands for both a missing key and a zero
\* balance, which the callers treat alike
balance_or_zero(balances, user_id) ==
    IF user_id \in DictKeys(balances) THEN DictGet(balances, user_id) ELSE 0

---------------------------------------------------------------------------
(* crud.calculate_balance_between_two_users *)

\* get_group_bills(db, group_id) called without a limit: skip=0, limit=10
DefaultLimit == 10

\* the payments of the group between the two users, in either direction
get_payments_between_users_in_group(payment_table, user_a_id, user_b_id) ==
    SelectSeq(payment_table,
              LAMBDA payment :
                  \/ payment.payer_id = user_a_id /\ payment.payee_id = user_b_id
                  \/ payment.payer_id = user_b_id /\ payment.payee_id = user_a_id)

\* crud.get_user_share_for_bill: the share rounded to a whole unit
get_user_share_for_bill(bill, target_user_id) ==
    LET user_monetary_share ==
            IF bill.split_method \in {"equal", "exact"}
            THEN LET k == FirstIndex(bill.bill_parts, target_user_id)
                 IN IF k = 0 THEN 0 ELSE bill.bill_parts[k].amount_owed
            ELSE IF bill.split_method = "item"
            THEN SumSeq([i \in 1..Len(bill.items) |->
                            item_share_cost(bill.items[i], target_user_id)])
            ELSE 0
    IN quantize_one_half_up(user_monetary_share)

\* sum(ip.amount_paid for ip in bill.initial_payments if ip.user_id == user_id)
paid_initially(bill, user_id) ==
    SumSeq([i \in 1..Len(bill.initial_payments) |->
               IF bill.initial_payments[i].user_id = user_id
               THEN bill.initial_payments[i].amount_paid ELSE 0])

\* the loop over direct_payments: what it adds to u1_owes_u2
direct_payments_total(direct_payments, u1, u2) ==
    SumSeq([i \in 1..Len(direct_payments) |->
               IF direct_payments[i].payer_id = u1 THEN -direct_payments[i].amount
               ELSE IF direct_payments[i].payer_id = u2 THEN direct_payments[i].amount
               ELSE 0])

\* the body of the loop over group_bills: what one bill adds to u1_owes_u2
bill_contribution(bill, u1, u2) ==
    LET u1_share == get_user_share_for_bill(bill, u1)
        u2_share == get_user_share_for_bill(bill, u2)
        u2_surplus_on_bill == paid_initially(bill, u2) - u2_share
        u1_surplus_on_bill == paid_initially(bill, u1) - u1_share
    IN IF u1_share > 0 \/ u2_share > 0
       THEN (IF u2_surplus_on_bill > 0 /\ u1_share > 0
             THEN Min(u2_surplus_on_bill, u1_share) ELSE 0)
            - (IF u1_surplus_on_bill > 0 /\ u2_share > 0
               THEN Min(u1_surplus_on_bill, u2_share) ELSE 0)
       ELSE 0

\* u1_owes_u2 after the two loops, before the final quantize
running_total(bill_table, payment_table, u1, u2) ==
    LET fetched == get_group_bills(bill_table, DefaultLimit)
    IN direct_payments_total(
           get_payments_between_users_in_group(payment_table, u1, u2), u1, u2)
       + SumSeq([i \in 1..Len(fetched) |-> bill_contribution(fetched[i], u1, u2)])

calculate_balance_between_two_users(bill_table, payment_table, u1, u2) ==
    IF u1 = u2 THEN 0
    ELSE quantize_one_default(running_total(bill_table, payment_table, u1, u2))

---------------------------------------------------------------------------
(* crud.calculate_suggested_settlements *)

\* a local variable that is not assigned yet, or holds a value
Unbound == [bound |-> FALSE, value |-> 0]

Bound(x) == [bound |-> TRUE, value |-> x]

RECURSIVE SelectEntries(_, _)
\* the entries of a dict whose sign is wanted, each amount multiplied by sign
SelectEntries(d, sign) ==
    IF d = <<>> THEN <<>>
    ELSE IF Head(d).amount * sign > 0
         THEN <<[user_id |-> Head(d).user_id, amount |-> Head(d).amount * sign]>>
              \o SelectEntries(Tail(d), sign)
         ELSE SelectEntries(Tail(d), sign)

\* debtors = {user_id: amount ... if amount > 0}, as debtor_list
debtors_of(balances) == SelectEntries(balances, 1)

\* creditors = {user_id: -amount ... if amount < 0}, as creditor_list
creditors_of(balances) == SelectEntries(balances, -1)

\* variant: the whole debt of the payer, whatever the payee is due
transfer_whole_debt(amount_owed_by_payer, amount_due_to_payee) ==
    amount_owed_by_payer

\* transfer_amount = min(amount_owed_by_payer, amount_due_to_payee)
transfer_amount(amount_owed_by_payer, amount_due_to_payee) ==
    Min(amount_owed_by_payer, amount_due_to_payee)

\* variant: any positive transfer is emitted
exceeds_zero(amount) == amount > 0

\* if transfer_amount > Decimal("0.005")
exceeds_dust(amount) == amount > Dust

\* variant: the payer's remainder is not reduced
owed_unchanged(amount_owed_by_payer, transfer) == amount_owed_by_payer

\* new_amount_owed_by_payer = amount_owed_by_payer - transfer_amount
owed_after(amount_owed_by_payer, transfer) == amount_owed_by_payer - transfer

\* variant: the payee's remainder is not reduced
due_unchanged(amount_due_to_payee, transfer) == amount_due_to_payee

\* new_amount_due_to_payee = amount_due_to_payee - transfer_amount
due_after(amount_due_to_payee, transfer) == amount_due_to_payee - transfer

\* the state of the function right after the two lists are built
planner_start(balances) ==
    [pc |-> "loop",
     debtor_list |-> debtors_of(balances),
     creditor_list |-> creditors_of(balances),
     debtor_idx |-> 1,
     creditor_idx |-> 1,
     suggested_payments |-> <<>>,
     new_amount_owed_by_payer |-> Unbound,
     new_amount_due_to_payee |-> Unbound]

\* while debtor_idx < len(debtor_list) and creditor_idx < len(creditor_list)
loop_condition(st) ==
    /\ st.debtor_idx <= Len(st.debtor_list)
    /\ st.creditor_idx <= Len(st.creditor_list)

\* the transfer of the iteration that st is about to run
step_transfer(st) ==
    transfer_amount(st.debtor_list[st.debtor_idx].amount,
                    st.creditor_list[st.creditor_idx].amount)

\* the body of the loop up to the end of the "if transfer_amount > 0.005" block
after_transfer(st) ==
    LET payer == st.debtor_list[st.debtor_idx]
        payee == st.creditor_list[st.creditor_idx]
        transfer == step_transfer(st)
    IN IF exceeds_dust(transfer)
       THEN [st EXCEPT
                !.suggested_payments =
                    Append(@, [payer_id |-> payer.user_id,
                               payee_id |-> payee.user_id,
                               amount |-> quantize_default(transfer)]),
                !.new_amount_owed_by_payer = Bound(owed_after(payer.amount, transfer)),
                !.new_amount_due_to_payee = Bound(due_after(payee.amount, transfer)),
                !.debtor_list[st.debtor_idx].amount = owed_after(payer.amount, transfer),
                !.creditor_list[st.creditor_idx].amount = due_after(payee.amount, transfer)]
       ELSE st

\* the two cursor checks; reading an unassigned local raises UnboundLocalError
advance_cursors(st) ==
    IF ~st.new_amount_owed_by_payer.bound
    THEN [st EXCEPT !.pc = "raised"]
    ELSE [st EXCEPT
            !.debtor_idx =
                IF st.new_amount_owed_by_payer.value <= Dust THEN @ + 1 ELSE @,
            !.creditor_idx =
                IF st.new_amount_due_to_payee.value <= Dust THEN @ + 1 ELSE @]

\* one evaluation of the loop condition followed by one iteration or the return
planner_step(st) ==
    IF loop_condition(st) THEN advance_cursors(after_transfer(st))
    ELSE [st EXCEPT !.pc = "done"]

RECURSIVE planner_run(_)
planner_run(st) == IF st.pc = "loop" THEN planner_run(planner_step(st)) ELSE st

\* the call as a function: its final state (pc is "done" or "raised")
calculate_suggested_settlements(balances) == planner_run(planner_start(balances))

---------------------------------------------------------------------------
(* The ledger: one action per request that commits *)

\* no call of calculate_balance_between_two_users is running
BilateralIdle ==
    /\ user1_id = 0
    /\ user2_id = 0
    /\ u1_owes_u2 = 0
    /\ group_bills = <<>>

\* an absent cache entry or response, and a present one
NoEntry == [present |-> FALSE, value |-> <<>>]

Entry(v) == [present |-> TRUE, value |-> v]

\* no leave_group or remove_member request is between its check and its delete,
\* and no create_new_payment request is running
RequestIdle ==
    /\ departing = 0
    /\ in_transaction = <<>>
    /\ payment_response = NoEntry

\* FastAPICache.init(InMemoryBackend()): nothing stored, no response being sent
CacheIdle ==
    /\ balances_cache = NoEntry
    /\ balances_response = NoEntry

PlannerIdle ==
    /\ pc = "idle"
    /\ net_balances = <<>>
    /\ debtor_list = <<>>
    /\ creditor_list = <<>>
    /\ debtor_idx = 1
    /\ creditor_idx = 1
    /\ suggested_payments = <<>>
    /\ new_amount_owed_by_payer = Unbound
    /\ new_amount_due_to_payee = Unbound

\* a group created by user 1 (crud.create_group) that users 2 and 3 joined
InitialMembers == (1 :> "owner" @@ 2 :> "member" @@ 3 :> "member")

Init ==
    /\ members = InitialMembers
    /\ bills = <<>>
    /\ payments = <<>>
    /\ PlannerIdle
    /\ BilateralIdle
    /\ CacheIdle
    /\ RequestIdle

\* GroupMemberCreate.role values sent in this model
AddRoles == {"member", "owner"}

\* routers/groups.add_member_to_group
AddMember(requester_id, user_id_to_add, role_to_add) ==
    /\ requester_id \in MemberIds
    /\ members[requester_id] \in {"owner", "admin"}
    /\ role_to_add # "owner"
    /\ role_to_add = "admin" => members[requester_id] = "owner"
    /\ user_id_to_add \notin MemberIds
    /\ members' = [u \in MemberIds \cup {user_id_to_add} |->
                      IF u = user_id_to_add THEN role_to_add ELSE members[u]]
    /\ UNCHANGED <<bills, payments, planner_vars, bilateral_vars, cache_vars, request_vars>>

\* crud.remove_user_from_group
remove_user_from_group(mem, user_id_to_remove) ==
    [u \in DOMAIN mem \ {user_id_to_remove} |-> mem[u]]

\* routers/groups.leave_group
LeaveGroup(user_id_to_leave) ==
    /\ user_id_to_leave \in MemberIds
    /\ members[user_id_to_leave] # "owner"
    /\ balance_or_zero(NetBalances, user_id_to_leave) = 0
    /\ members' = remove_user_from_group(members, user_id_to_leave)
    /\ UNCHANGED <<bills, payments, planner_vars, bilateral_vars, cache_vars, request_vars>>

\* routers/groups.remove_member_from_group_endpoint
RemoveMember(requester_id, user_id_to_remove) ==
    /\ requester_id # user_id_to_remove
    /\ requester_id \in MemberIds
    /\ user_id_to_remove \in MemberIds
    /\ members[user_id_to_remove] # "owner"
    /\ members[requester_id] # "member"
    /\ members[requester_id] = "admin" => members[user_id_to_remove] = "member"
    /\ balance_or_zero(NetBalances, user_id_to_remove) = 0
    /\ members' = remove_user_from_group(members, user_id_to_remove)
    /\ UNCHANGED <<bills, payments, planner_vars, bilateral_vars, cache_vars, request_vars>>

\* routers/bills.create_new_bill
CreateBill(creator_id, bill_in) ==
    /\ creator_id \in MemberIds
    /\ Len(bills) < MaxBills
    /\ BillAccepted(members, bill_in)
    /\ bills' = Append(bills, BillRow(members, creator_id, bill_in))
    /\ UNCHANGED <<members, payments, planner_vars, bilateral_vars, cache_vars, request_vars>>

\* dependencies.authorize_bill_operation
authorize_bill_operation(mem, db_bill, requester_user_id) ==
    /\ requester_user_id \in DOMAIN mem
    /\ \/ db_bill.created_by = requester_user_id
       \/ mem[requester_user_id] \in {"owner", "admin"}

\* routers/bills.update_bill_endpoint with bill_services.update_bill_service
UpdateBill(requester_id, k, bill_in) ==
    /\ k \in 1..Len(bills)
    /\ authorize_bill_operation(members, bills[k], requester_id)
    /\ BillAccepted(members, bill_in)
    /\ bills' = [bills EXCEPT ![k] = BillRow(members, bills[k].created_by, bill_in)]
    /\ UNCHANGED <<members, payments, planner_vars, bilateral_vars, cache_vars, request_vars>>

\* routers/bills.delete_bill with bill_services.delete_bill_service
DeleteBill(requester_id, k) ==
    /\ k \in 1..Len(bills)
    /\ authorize_bill_operation(members, bills[k], requester_id)
    /\ bills' = RemoveAt(bills, k)
    /\ UNCHANGED <<members, payments, planner_vars, bilateral_vars, cache_vars, request_vars>>

\* payment_services.validate_payer_payee: TRUE when no HTTPException is raised
validate_payer_payee(mem, payer_id, payee_id) ==
    /\ payer_id # payee_id
    /\ validate_member_ids_in_group(mem, {payer_id, payee_id})

\* routers/payments.create_new_payment with crud.create_payment
CreatePayment(payer_id, payee_id, amount) ==
    /\ Len(payments) < MaxPayments
    /\ amount > 0
    /\ validate_payer_payee(members, payer_id, payee_id)
    /\ payments' = Append(payments, [payer_id |-> payer_id, payee_id |-> payee_id,
                                     amount |-> amount])
    /\ UNCHANGED <<members, bills, planner_vars, bilateral_vars, cache_vars, request_vars>>

\* dependencies.authorize_payment_operation
authorize_payment_operation(mem, db_payment, requester_user_id) ==
    /\ requester_user_id \in DOMAIN mem
    /\ \/ db_payment.payer_id = requester_user_id
       \/ mem[requester_user_id] \in {"owner", "admin"}

\* routers/payments.update_payment_endpoint with crud.update_payment
UpdatePayment(requester_id, k, amount) ==
    /\ k \in 1..Len(payments)
    /\ amount > 0
    /\ authorize_payment_operation(members, payments[k], requester_id)
    /\ payments' = [payments EXCEPT ![k].amount = amount]
    /\ UNCHANGED <<members, bills, planner_vars, bilateral_vars, cache_vars, request_vars>>

\* routers/payments.delete_payment_endpoint with crud.delete_payment
DeletePayment(requester_id, k) ==
    /\ k \in 1..Len(payments)
    /\ authorize_payment_operation(members, payments[k], requester_id)
    /\ payments' = RemoveAt(payments, k)
    /\ UNCHANGED <<members, bills, planner_vars, bilateral_vars, cache_vars, request_vars>>

Next ==
    \/ \E r, u \in Users, role \in AddRoles : AddMember(r, u, role)
    \/ \E u \in Users : LeaveGroup(u)
    \/ \E r, u \in Users : RemoveMember(r, u)
    \/ \E u \in BillCreators, b \in ParsedBillInputs : CreateBill(u, b)
    \/ \E u \in Users, k \in 1..MaxBills, b \in ParsedBillInputs : UpdateBill(u, k, b)
    \/ \E u \in Users, k \in 1..MaxBills : DeleteBill(u, k)
    \/ \E p \in PaymentPairs, a \in PaymentAmounts : CreatePayment(p[1], p[2], a)
    \/ \E u \in Users, k \in 1..MaxPayments, a \in PaymentAmounts : UpdatePayment(u, k, a)
    \/ \E u \in Users, k \in 1..MaxPayments : DeletePayment(u, k)

Spec == Init /\ [][Next]_vars

\* the requests of a group whose membership does not change: bills and payments
NextClosed ==
    \/ \E u \in BillCreators, b \in ParsedBillInputs : CreateBill(u, b)
    \/ \E u \in Users, k \in 1..MaxBills, b \in ParsedBillInputs : UpdateBill(u, k, b)
    \/ \E u \in Users, k \in 1..MaxBills : DeleteBill(u, k)
    \/ \E p \in PaymentPairs, a \in PaymentAmounts : CreatePayment(p[1], p[2], a)
    \/ \E u \in Users, k \in 1..MaxPayments, a \in PaymentAmounts : UpdatePayment(u, k, a)
    \/ \E u \in Users, k \in 1..MaxPayments : DeletePayment(u, k)

SpecClosed == Init /\ [][NextClosed]_vars

---------------------------------------------------------------------------
(* leave_group and remove_member as they run: a check, then a delete *)

\* routers/groups.leave_group up to the balance check: the role is read, the
\* net balances are computed and the user's balance is found to be zero
CheckLeave(user_id_to_leave) ==
    /\ departing = 0
    /\ user_id_to_leave \in MemberIds
    /\ members[user_id_to_leave] # "owner"
    /\ balance_or_zero(NetBalances, user_id_to_leave) = 0
    /\ departing' = user_id_to_leave
    /\ UNCHANGED <<ledger_vars, planner_vars, bilateral_vars, cache_vars,
                   in_transaction, payment_response>>

\* routers/groups.remove_member_from_group_endpoint up to its last role check
CheckRemove(requester_id, user_id_to_remove) ==
    /\ departing = 0
    /\ requester_id # user_id_to_remove
    /\ balance_or_zero(NetBalances, user_id_to_remove) = 0
    /\ requester_id \in MemberIds
    /\ user_id_to_remove \in MemberIds
    /\ members[user_id_to_remove] # "owner"
    /\ members[requester_id] # "member"
    /\ members[requester_id] = "admin" => members[user_id_to_remove] = "member"
    /\ departing' = user_id_to_remove
    /\ UNCHANGED <<ledger_vars, planner_vars, bilateral_vars, cache_vars,
                   in_transaction, payment_response>>

\* the rest of either handler: crud.remove_user_from_group, the audit entry
\* and the commit
DeleteMembership ==
    /\ departing # 0
    /\ departing \in MemberIds
    /\ members' = remove_user_from_group(members, departing)
    /\ departing' = 0
    /\ UNCHANGED <<bills, payments, planner_vars, bilateral_vars, cache_vars,
                   in_transaction, payment_response>>

\* departures interleaved with the requests that create bills and payments
NextConcurrent ==
    \/ \E u \in Users : CheckLeave(u)
    \/ \E r, u \in Users : CheckRemove(r, u)
    \/ DeleteMembership
    \/ \E u \in BillCreators, b \in ParsedBillInputs : CreateBill(u, b)
    \/ \E p \in PaymentPairs, a \in PaymentAmounts : CreatePayment(p[1], p[2], a)

SpecConcurrent == Init /\ [][NextConcurrent]_vars

---------------------------------------------------------------------------
(* create_new_payment as it runs: flush, audit entry, response *)

\* the payments table and the rows the request's session has flushed
SessionView(table, pending) == [table |-> table, pending |-> pending]

\* variant: db.commit() without await: the coroutine is created and never run
unawaited_commit(session) == session

\* await db.commit(): the rows flushed in the session become stored rows
awaited_commit(session) ==
    [table |-> session.table \o session.pending, pending |-> <<>>]

\* await db.rollback(), and session.close() in get_db: flushed rows are dropped
session_rollback(session) == [session EXCEPT !.pending = <<>>]

\* crud.get_payment inside the session: the row of db_payment.payment_id
get_payment(session) ==
    LET visible == session.table \o session.pending
    IN visible[Len(visible)]

SetPaymentRequest(position, session, response) ==
    /\ pc' = position
    /\ payments' = session.table
    /\ in_transaction' = session.pending
    /\ payment_response' = response
    /\ UNCHANGED <<members, bills, net_balances, debtor_list, creditor_list,
                   debtor_idx, creditor_idx, suggested_payments,
                   new_amount_owed_by_payer, new_amount_due_to_payee,
                   bilateral_vars, cache_vars, departing>>

\* create_new_payment up to crud.create_payment: the checks pass, the row is
\* added to the session and flushed
FlushPayment(payer_id, payee_id, amount) ==
    /\ pc = "idle"
    /\ Len(payments) < MaxPayments
    /\ amount > 0
    /\ validate_payer_payee(members, payer_id, payee_id)
    /\ SetPaymentRequest("payment_flushed",
                         SessionView(payments,
                                     <<[payer_id |-> payer_id, payee_id |-> payee_id,
                                        amount |-> amount]>>),
                         NoEntry)

\* record_group_activity: crud.create_audit_log_entry adds the audit row and
\* awaits db.commit() on the request's session
RecordActivity ==
    /\ pc = "payment_flushed"
    /\ SetPaymentRequest("payment_logged",
                         awaited_commit(SessionView(payments, in_transaction)),
                         NoEntry)

\* the audit insert raises: create_audit_log_entry rolls back and re-raises,
\* and create_new_payment answers 500
RecordActivityFails ==
    /\ pc = "payment_flushed"
    /\ SetPaymentRequest("idle",
                         session_rollback(SessionView(payments, in_transaction)),
                         Entry([status |-> 500, payment |-> get_payment(
                                    SessionView(payments, in_transaction))]))

\* db.commit() without await, get_payment, return (201), then get_db closes
\* the session
RespondCreated ==
    /\ pc = "payment_logged"
    /\ LET session == unawaited_commit(SessionView(payments, in_transaction))
       IN SetPaymentRequest("idle", session_rollback(session),
                            Entry([status |-> 201, payment |-> get_payment(session)]))

\* payment requests step by step, bills created by other requests at any time
NextDurable ==
    \/ \E p \in PaymentPairs, a \in PaymentAmounts : FlushPayment(p[1], p[2], a)
    \/ RecordActivity
    \/ RecordActivityFails
    \/ RespondCreated
    \/ \E u \in BillCreators, b \in ParsedBillInputs : CreateBill(u, b)
    \/ \E u \in Users, k \in 1..MaxPayments : pc = "idle" /\ DeletePayment(u, k)

SpecDurable == Init /\ [][NextDurable]_vars

---------------------------------------------------------------------------
(* Roles: group creation, invitations, role updates and the owner swap *)

\* crud.create_group: the creator's membership row, with role owner
create_group(creator_id) == (creator_id :> "owner")

\* role_hierarchy of update_member_role_endpoint
role_hierarchy(role) ==
    IF role = "owner" THEN 2 ELSE IF role = "admin" THEN 1 ELSE 0

\* crud.update_member_role
update_member_role(mem, user_id, new_role) == [mem EXCEPT ![user_id] = new_role]

\* variant: the new owner is promoted, the current owner keeps the role
promote_to_owner(mem, current_owner_id, new_owner_id) ==
    [mem EXCEPT ![new_owner_id] = "owner"]

\* crud.swap_owner_with_admin
swap_owner_with_admin(mem, current_owner_id, new_owner_id) ==
    [mem EXCEPT ![current_owner_id] = "admin", ![new_owner_id] = "owner"]

\* GroupMemberRoleUpdate.role values
NewRoles == {"member", "admin", "owner"}

\* routers/groups.update_member_role_endpoint
UpdateMemberRole(requester_id, user_id, new_role) ==
    /\ requester_id \in MemberIds
    /\ user_id \in MemberIds
    /\ requester_id # user_id
    /\ role_hierarchy(members[requester_id]) > role_hierarchy(members[user_id])
    /\ new_role # members[user_id]
    /\ IF /\ members[requester_id] = "owner"
          /\ members[user_id] = "admin"
          /\ new_role = "owner"
       THEN members' = swap_owner_with_admin(members, requester_id, user_id)
       ELSE /\ role_hierarchy(new_role) < role_hierarchy(members[requester_id])
            /\ members' = update_member_role(members, user_id, new_role)
    /\ UNCHANGED <<bills, payments, planner_vars, bilateral_vars, cache_vars,
                   request_vars>>

\* routers/invitations.respond_to_group_invitation with status accepted, for a
\* pending invitation of invitee_id: crud.update_group_invitation adds the
\* invitee with role member unless already a member
AcceptInvitation(invitee_id) ==
    /\ members' = IF invitee_id \in MemberIds THEN members
                  ELSE [u \in MemberIds \cup {invitee_id} |->
                           IF u = invitee_id THEN "member" ELSE members[u]]
    /\ UNCHANGED <<bills, payments, planner_vars, bilateral_vars, cache_vars,
                   request_vars>>

\* routers/groups.create_new_group by user 1: the group and its owner row
InitRoles ==
    /\ members = create_group(1)
    /\ bills = <<>>
    /\ payments = <<>>
    /\ PlannerIdle
    /\ BilateralIdle
    /\ CacheIdle
    /\ RequestIdle

\* the membership requests of the group, and the equal-split bills and the
\* payments whose balances decide whether a member may go
NextRoles ==
    \/ \E r, u \in Users, role \in AddRoles : AddMember(r, u, role)
    \/ \E u \in Users : AcceptInvitation(u)
    \/ \E r, u \in Users, role \in NewRoles : UpdateMemberRole(r, u, role)
    \/ \E u \in Users : LeaveGroup(u)
    \/ \E r, u \in Users : RemoveMember(r, u)
    \/ \E p \in PaymentPairs, a \in PaymentAmounts : CreatePayment(p[1], p[2], a)
    \/ \E u \in Users, k \in 1..MaxPayments : DeletePayment(u, k)
    \/ \E u \in BillCreators, b \in EqualInputs : CreateBill(u, b)

SpecRoles == InitRoles /\ [][NextRoles]_vars

---------------------------------------------------------------------------
(* Bill requests whose item prices are near the bill total *)

\* item payloads whose prices sum to 20.00 under totals 0.01 below, 0.01 above
\* and 0.02 above
ToleranceInputs ==
    {BillIn("item", t, <<>>,
            <<ItemIn(10000, 2, <<SplitIn(1, 1), SplitIn(2, 1)>>)>>, <<>>) :
        t \in {19990, 20010, 20020}}

IntakeInputs == {b \in BillInputs \cup ToleranceInputs : PayloadValid(b)}

\* the bill and payment requests of a group whose membership does not change
NextIntake ==
    \/ \E u \in BillCreators, b \in IntakeInputs : CreateBill(u, b)
    \/ \E u \in Users, k \in 1..MaxBills, b \in IntakeInputs : UpdateBill(u, k, b)
    \/ \E u \in Users, k \in 1..MaxBills : DeleteBill(u, k)
    \/ \E p \in PaymentPairs, a \in PaymentAmounts : CreatePayment(p[1], p[2], a)
    \/ \E u \in Users, k \in 1..MaxPayments : DeletePayment(u, k)

SpecIntake == Init /\ [][NextIntake]_vars

---------------------------------------------------------------------------
(* The planner run step by step on one balance map *)

\* balances fed to the planner: cent-valued ones and ones with a sub-cent part
PlannerAmounts ==
    {-50000, -30000, -20006, -20000, -6, -4, 0, 4, 5, 6, 15, 25,
     20000, 30000, 50000}

\* the orders in which the keys of the map are iterated
KeyOrders == {<<1, 2, 3>>, <<3, 1, 2>>}

\* balances of the four-entry maps: two debtors and two creditors fit in one
FourEntryAmounts == {-20000, -4, 4, 20000}

\* three-entry maps in each key order, four-entry maps, and the map of a group
\* without members
PlannerInputs ==
    {<<[user_id |-> o[1], amount |-> a], [user_id |-> o[2], amount |-> b],
       [user_id |-> o[3], amount |-> c]>> : a, b, c \in PlannerAmounts, o \in KeyOrders}
    \cup {<<[user_id |-> 1, amount |-> a], [user_id |-> 2, amount |-> b],
            [user_id |-> 3, amount |-> c], [user_id |-> 4, amount |-> d]>> :
                a, b, c, d \in FourEntryAmounts}
    \cup {<<>>}

PlannerState ==
    [pc |-> pc,
     debtor_list |-> debtor_list,
     creditor_list |-> creditor_list,
     debtor_idx |-> debtor_idx,
     creditor_idx |-> creditor_idx,
     suggested_payments |-> suggested_payments,
     new_amount_owed_by_payer |-> new_amount_owed_by_payer,
     new_amount_due_to_payee |-> new_amount_due_to_payee]

SetPlanner(st) ==
    /\ pc' = st.pc
    /\ debtor_list' = st.debtor_list
    /\ creditor_list' = st.creditor_list
    /\ debtor_idx' = st.debtor_idx
    /\ creditor_idx' = st.creditor_idx
    /\ suggested_payments' = st.suggested_payments
    /\ new_amount_owed_by_payer' = st.new_amount_owed_by_payer
    /\ new_amount_due_to_payee' = st.new_amount_due_to_payee
    /\ UNCHANGED <<net_balances, members, bills, payments, bilateral_vars, cache_vars, request_vars>>

InitPlanner ==
    /\ members = (1 :> "owner")
    /\ bills = <<>>
    /\ payments = <<>>
    /\ pc = "start"
    /\ net_balances \in PlannerInputs
    /\ debtor_list = <<>>
    /\ creditor_list = <<>>
    /\ debtor_idx = 1
    /\ creditor_idx = 1
    /\ suggested_payments = <<>>
    /\ new_amount_owed_by_payer = Unbound
    /\ new_amount_due_to_payee = Unbound
    /\ BilateralIdle
    /\ CacheIdle
    /\ RequestIdle

\* lines up to the while loop: the two lists and the cursors
Partition ==
    /\ pc = "start"
    /\ SetPlanner(planner_start(net_balances))

\* an iteration whose transfer exceeds the dust threshold
EmitTransfer ==
    /\ pc = "loop"
    /\ loop_condition(PlannerState)
    /\ exceeds_dust(step_transfer(PlannerState))
    /\ SetPlanner(planner_step(PlannerState))

\* an iteration whose transfer is skipped, after an earlier one has assigned
\* the two new_amount locals
SkipTransfer ==
    /\ pc = "loop"
    /\ loop_condition(PlannerState)
    /\ ~exceeds_dust(step_transfer(PlannerState))
    /\ new_amount_owed_by_payer.bound
    /\ SetPlanner(planner_step(PlannerState))

\* an iteration whose transfer is skipped while the locals are unassigned
RaiseUnbound ==
    /\ pc = "loop"
    /\ loop_condition(PlannerState)
    /\ ~exceeds_dust(step_transfer(PlannerState))
    /\ ~new_amount_owed_by_payer.bound
    /\ SetPlanner(planner_step(PlannerState))

\* the loop condition fails: return suggested_payments
Return ==
    /\ pc = "loop"
    /\ ~loop_condition(PlannerState)
    /\ SetPlanner(planner_step(PlannerState))

NextPlanner == Partition \/ EmitTransfer \/ SkipTransfer \/ RaiseUnbound \/ Return

SpecPlanner == InitPlanner /\ [][NextPlanner]_vars

---------------------------------------------------------------------------
(* calculate_balance_between_two_users run step by step on stored rows *)

\* the rows create_bill writes for the accepted payloads in the initial group
AcceptedBillRows ==
    {BillRow(InitialMembers, 1, b) :
        b \in {x \in ParsedBillInputs : BillAccepted(InitialMembers, x)}}

\* the bill that fills a long history: 90.00 split equally, fronted by user 2
RecentBill ==
    BillRow(InitialMembers, 1, BillIn("equal", 90000, <<IP(2, 90000)>>, <<>>, <<>>))

\* a long history has one older bill followed by up to this many recent ones
MaxRecent == 10

Repeated(row, n) == [i \in 1..n |-> row]

\* bills tables, oldest first: short ones, and long ones around DefaultLimit
BilateralBillTables ==
    {<<>>}
    \cup {<<a>> : a \in AcceptedBillRows}
    \cup {<<a, b>> : a, b \in AcceptedBillRows}
    \cup {<<a>> \o Repeated(RecentBill, n) :
             a \in AcceptedBillRows, n \in (DefaultLimit - 1)..MaxRecent}

PaymentRow(payer_id, payee_id, amount) ==
    [payer_id |-> payer_id, payee_id |-> payee_id, amount |-> amount]

\* payments rows: whole amounts and amounts with a fraction of a unit
BilateralPayments ==
    {PaymentRow(p[1], p[2], a) :
        p \in {<<1, 2>>, <<2, 1>>, <<3, 1>>}, a \in {500, 2500, 30000}}

BilateralPaymentTables ==
    {<<>>}
    \cup {<<p>> : p \in BilateralPayments}
    \cup {<<p, q>> : p, q \in {r \in BilateralPayments : r.amount = 500}}

\* the (user1_id, user2_id) arguments of the calls
BilateralPairs == {<<1, 2>>, <<2, 1>>, <<3, 2>>, <<2, 2>>}

InitBilateral ==
    /\ members = InitialMembers
    /\ bills \in BilateralBillTables
    /\ payments \in BilateralPaymentTables
    /\ pc = "called"
    /\ \E p \in BilateralPairs : user1_id = p[1] /\ user2_id = p[2]
    /\ u1_owes_u2 = 0
    /\ group_bills = <<>>
    /\ net_balances = <<>>
    /\ debtor_list = <<>>
    /\ creditor_list = <<>>
    /\ debtor_idx = 1
    /\ creditor_idx = 1
    /\ suggested_payments = <<>>
    /\ new_amount_owed_by_payer = Unbound
    /\ new_amount_due_to_payee = Unbound
    /\ CacheIdle
    /\ RequestIdle

SetBilateral(position, total, rows) ==
    /\ pc' = position
    /\ u1_owes_u2' = total
    /\ group_bills' = rows
    /\ UNCHANGED <<ledger_vars, user1_id, user2_id, net_balances, debtor_list,
                   creditor_list, debtor_idx, creditor_idx, suggested_payments,
                   new_amount_owed_by_payer, new_amount_due_to_payee, cache_vars,
                   request_vars>>

\* if user1_id == user2_id: return Decimal("0")
ReturnSameUser ==
    /\ pc = "called"
    /\ user1_id = user2_id
    /\ SetBilateral("returned", 0, <<>>)

\* the loop over the direct payments, then the bills are fetched
SumDirectPayments ==
    /\ pc = "called"
    /\ user1_id # user2_id
    /\ SetBilateral("bills",
                    direct_payments_total(
                        get_payments_between_users_in_group(payments, user1_id,
                                                            user2_id),
                        user1_id, user2_id),
                    get_group_bills(bills, DefaultLimit))

\* one iteration of the loop over group_bills
ScanBill ==
    /\ pc = "bills"
    /\ group_bills # <<>>
    /\ SetBilateral("bills",
                    u1_owes_u2 + bill_contribution(Head(group_bills), user1_id,
                                                   user2_id),
                    Tail(group_bills))

\* return u1_owes_u2.quantize(Decimal("1"))
RoundTotal ==
    /\ pc = "bills"
    /\ group_bills = <<>>
    /\ SetBilateral("returned", quantize_one_default(u1_owes_u2), <<>>)

NextBilateral == ReturnSameUser \/ SumDirectPayments \/ ScanBill \/ RoundTotal

SpecBilateral == InitBilateral /\ [][NextBilateral]_vars

---------------------------------------------------------------------------
(* routers/balance.read_group_balances behind @cache(expire=300) *)

\* the decorated function runs: no entry is found under the request's key (or
\* it is older than 300 s), the balances are computed from the stored rows,
\* kept under the key and returned
ReadGroupBalancesComputed(requester_id) ==
    /\ pc = "idle"
    /\ requester_id \in MemberIds
    /\ pc' = "responding"
    /\ balances_cache' = Entry(NetBalances)
    /\ balances_response' = Entry(NetBalances)
    /\ UNCHANGED <<ledger_vars, net_balances, debtor_list, creditor_list,
                   debtor_idx, creditor_idx, suggested_payments,
                   new_amount_owed_by_payer, new_amount_due_to_payee,
                   bilateral_vars, request_vars>>

\* an entry younger than 300 s is found under the request's key: it is
\* returned and the function body does not run
ReadGroupBalancesCached(requester_id) ==
    /\ pc = "idle"
    /\ requester_id \in MemberIds
    /\ balances_cache.present
    /\ pc' = "responding"
    /\ balances_response' = balances_cache
    /\ UNCHANGED <<ledger_vars, net_balances, debtor_list, creditor_list,
                   debtor_idx, creditor_idx, suggested_payments,
                   new_amount_owed_by_payer, new_amount_due_to_payee,
                   bilateral_vars, balances_cache, request_vars>>

\* the response leaves the server
SendResponse ==
    /\ pc = "responding"
    /\ pc' = "idle"
    /\ balances_response' = NoEntry
    /\ UNCHANGED <<ledger_vars, net_balances, debtor_list, creditor_list,
                   debtor_idx, creditor_idx, suggested_payments,
                   new_amount_owed_by_payer, new_amount_due_to_payee,
                   bilateral_vars, balances_cache, request_vars>>

\* bill and payment requests commit between two balance requests
NextCache ==
    \/ pc = "idle" /\ NextClosed
    \/ \E u \in Users : ReadGroupBalancesComputed(u)
    \/ \E u \in Users : ReadGroupBalancesCached(u)
    \/ SendResponse

SpecCache == Init /\ [][NextCache]_vars

---------------------------------------------------------------------------
(* Properties of the aggregator (specification Spec) *)

\* u has a bill part or an item split on the bill
IsParticipant(bill, u) ==
    \/ \E i \in 1..Len(bill.bill_parts) : bill.bill_parts[i].user_id = u
    \/ \E i \in 1..Len(bill.items) :
           \E j \in 1..Len(bill.items[i].bill_item_splits) :
               bill.items[i].bill_item_splits[j].user_id = u

\* u's share of the bill when u is a participant and the share is positive
PositiveShare(bill, u) ==
    LET share == calculate_user_owed_for_bill(bill, u)
    IN IF IsParticipant(bill, u) /\ share > 0 THEN share ELSE 0

\* what u fronted on the bill
InitialPaid(bill, u) ==
    SumSeq([i \in 1..Len(bill.initial_payments) |->
               IF bill.initial_payments[i].user_id = u
               THEN bill.initial_payments[i].amount_paid ELSE 0])

SharesOf(u) == SumSeq([k \in 1..Len(bills) |-> PositiveShare(bills[k], u)])

FrontedBy(u) == SumSeq([k \in 1..Len(bills) |-> InitialPaid(bills[k], u)])

PaidBy(u) ==
    SumSeq([k \in 1..Len(payments) |->
               IF payments[k].payer_id = u THEN payments[k].amount ELSE 0])

ReceivedBy(u) ==
    SumSeq([k \in 1..Len(payments) |->
               IF payments[k].payee_id = u THEN payments[k].amount ELSE 0])

\* the four-term closed form of a member's net balance
ExpectedBalance(u) == SharesOf(u) - FrontedBy(u) - PaidBy(u) + ReceivedBy(u)

\* the 90.00 bill fronted entirely by one member and split equally among three
FrontedEqualBill ==
    BillRow(InitialMembers, 1, BillIn("equal", 90000, <<IP(2, 90000)>>, <<>>, <<>>))

\* the balances of a group whose only row is that bill
FrontedEqualBillBalances ==
    calculate_group_net_balances(InitialMembers, <<FrontedEqualBill>>, <<>>)

\* every current member has a balance in the map, equal to the closed form
HasExpectedBalances(balances) ==
    \A u \in MemberIds :
        /\ u \in DictKeys(balances)
        /\ DictGet(balances, u) = ExpectedBalance(u)

\* C1: in a group whose membership never changes (specification SpecClosed),
\* the balances returned by calculate_group_net_balances sum to exactly zero
\* after every sequence of accepted bill and payment creations, updates and
\* deletions.
ZeroSum == DictSum(NetBalances) = 0

\* C2: every current member's net balance is the sum of the member's strictly
\* positive shares, minus what the member fronted, minus what the member paid,
\* plus what the member received; a 90.00 bill fronted by one member and split
\* equally among three gives -60.00 for that member and 30.00 for the others.
NetBalanceFormula ==
    /\ HasExpectedBalances(NetBalances)
    /\ FrontedEqualBillBalances
           = <<[user_id |-> 1, amount |-> 30000],
               [user_id |-> 2, amount |-> -60000],
               [user_id |-> 3, amount |-> 30000]>>

\* a member with a positive share and an initial payment who also received a payment
NetBalanceFormulaWitness ==
    \E u \in MemberIds :
        /\ SharesOf(u) > 0
        /\ FrontedBy(u) > 0
        /\ ReceivedBy(u) > 0
        /\ \E v \in MemberIds : PaidBy(v) > 0 /\ SharesOf(v) > 0

\* the payments of a plan made by payer u / received by payee v
PlanPaidBy(plan, u) ==
    SumSeq([i \in 1..Len(plan) |-> IF plan[i].payer_id = u THEN plan[i].amount ELSE 0])

PlanReceivedBy(plan, v) ==
    SumSeq([i \in 1..Len(plan) |-> IF plan[i].payee_id = v THEN plan[i].amount ELSE 0])

\* C3: the plan returned for the group's balance map pays, per debtor, the
\* debtor's balance and, per creditor, the creditor's credit, each within the
\* 0.005 dust threshold, so that applying the plan zeroes every balance.
SettlementConservation ==
    LET balances == NetBalances
        result == calculate_suggested_settlements(balances)
        plan == result.suggested_payments
    IN /\ result.pc = "done"
       /\ \A i \in 1..Len(balances) :
              /\ balances[i].amount > 0 =>
                     Abs(PlanPaidBy(plan, balances[i].user_id) - balances[i].amount) <= Dust
              /\ balances[i].amount < 0 =>
                     Abs(PlanReceivedBy(plan, balances[i].user_id) + balances[i].amount) <= Dust

\* C7: for a bill split equally or exactly and any user id, the share returned
\* by calculate_user_owed_for_bill is the amount_owed of the user's bill part
\* when the user has one, and 0.00 when the user has none.
ShareLookup ==
    \A k \in 1..Len(bills) : \A u \in Users :
        bills[k].split_method \in {"equal", "exact"} =>
            /\ \A i \in 1..Len(bills[k].bill_parts) :
                   bills[k].bill_parts[i].user_id = u =>
                       calculate_user_owed_for_bill(bills[k], u)
                           = bills[k].bill_parts[i].amount_owed
            /\ u \notin UserIds(bills[k].bill_parts) =>
                   calculate_user_owed_for_bill(bills[k], u) = 0

\* an exact bill is stored with a part of 30.50 for one user and none for another
ShareLookupWitness ==
    \E k \in 1..Len(bills) :
        /\ bills[k].split_method = "exact"
        /\ \E i \in 1..Len(bills[k].bill_parts) :
               bills[k].bill_parts[i].amount_owed % Unit # 0
        /\ \E u \in Users : u \notin UserIds(bills[k].bill_parts)

RECURSIVE MaxOf(_)
MaxOf(s) == IF s = <<>> THEN 0
            ELSE IF Head(s) >= MaxOf(Tail(s)) THEN Head(s) ELSE MaxOf(Tail(s))

\* the longest split list among the items of the bill
MaxSplits(bill) ==
    MaxOf([i \in 1..Len(bill.items) |-> Len(bill.items[i].bill_item_splits)])

\* the (item, split) positions of the bill that belong to u
SplitsOf(bill, u) ==
    {p \in (1..Len(bill.items)) \X (1..MaxSplits(bill)) :
        /\ p[2] <= Len(bill.items[p[1]].bill_item_splits)
        /\ bill.items[p[1]].bill_item_splits[p[2]].user_id = u}

\* unit_price x quantity at each (item, split) position of the bill
SplitCost(bill) ==
    [p \in (1..Len(bill.items)) \X (1..MaxSplits(bill)) |->
        IF p[2] <= Len(bill.items[p[1]].bill_item_splits)
        THEN bill.items[p[1]].unit_price
                 * bill.items[p[1]].bill_item_splits[p[2]].quantity
        ELSE 0]

\* one item of unit price 10 and quantity 2, split A: 1, B: 1
TwoWayItemBill ==
    BillRow(InitialMembers, 1,
            BillIn("item", 20000, <<>>,
                   <<ItemIn(10000, 2, <<SplitIn(1, 1), SplitIn(2, 1)>>)>>, <<>>))

TwoWayItemBillShares ==
    [u \in Users |-> calculate_user_owed_for_bill(TwoWayItemBill, u)]

\* C8: for an item bill, the share returned by calculate_user_owed_for_bill is
\* the sum over the items of unit_price times the user's split quantity on the
\* item, and 0.00 for a user assigned to no item; one item of unit price 10 and
\* quantity 2 split A: 1, B: 1 gives A 10.00 and C 0.00.
ItemShare ==
    /\ \A k \in 1..Len(bills) : \A u \in Users :
           bills[k].split_method = "item" =>
               /\ calculate_user_owed_for_bill(bills[k], u)
                      = SumSet(SplitsOf(bills[k], u), SplitCost(bills[k]))
               /\ SplitsOf(bills[k], u) = {} =>
                      calculate_user_owed_for_bill(bills[k], u) = 0
    /\ TwoWayItemBillShares = (1 :> 10000 @@ 2 :> 10000 @@ 3 :> 0)

\* an item bill is stored on which one user has splits on two items, with a
\* quantity below the item's on one of them, and another user has no split
ItemShareWitness ==
    \E k \in 1..Len(bills) :
        /\ bills[k].split_method = "item"
        /\ \E u \in Users : Cardinality(SplitsOf(bills[k], u)) = 2
        /\ \E u \in Users : SplitsOf(bills[k], u) = {}
        /\ \E i \in 1..Len(bills[k].items) :
               \E j \in 1..Len(bills[k].items[i].bill_item_splits) :
                   bills[k].items[i].bill_item_splits[j].quantity
                       < bills[k].items[i].quantity

\* C9: the shares stored for an equal-split bill sum to the bill's total exactly.
ShareCompleteness ==
    \A k \in 1..Len(bills) :
        bills[k].split_method = "equal" =>
            SumSeq([i \in 1..Len(bills[k].bill_parts) |->
                       bills[k].bill_parts[i].amount_owed])
                = bills[k].total_amount

\* the balances the stored rows would give if every user were a member
AllUsersBalances ==
    calculate_group_net_balances([u \in Users |-> "member"], bills, payments)

\* balances holds one entry per current member and nothing of the other users
FilteredTo(balances, unfiltered) ==
    /\ DictKeys(balances) = MemberIds
    /\ Len(balances) = Cardinality(MemberIds)
    /\ \A u \in MemberIds : DictGet(balances, u) = DictGet(unfiltered, u)
    /\ DictSum(balances) = SumSet(MemberIds, [u \in Users |-> ExpectedBalance(u)])

\* C10: the keys of the map returned by calculate_group_net_balances are exactly
\* the current member ids, and the rows of users who are not current members
\* change no balance: each member's balance is what it would be if those users
\* were members too, and the balances sum to the four-term forms of the members.
MemberFiltering == FilteredTo(NetBalances, AllUsersBalances)

\* a user who left is still named by an initial payment, a bill part and a payment
MemberFilteringWitness ==
    \E u \in Users \ MemberIds :
        /\ FrontedBy(u) > 0
        /\ \E k \in 1..Len(bills) : u \in UserIds(bills[k].bill_parts)
        /\ ReceivedBy(u) > 0

---------------------------------------------------------------------------
(* Properties of the two-user balance (specification SpecBilateral) *)

\* the sum of the amounts of the stored payments from payer to payee
PaidFromTo(payer, payee) ==
    SumSeq([i \in 1..Len(payments) |->
               IF payments[i].payer_id = payer /\ payments[i].payee_id = payee
               THEN payments[i].amount ELSE 0])

\* a user's initial payments on the bill minus the user's own scale-2 share
Surplus(bill, u) == InitialPaid(bill, u) - calculate_user_owed_for_bill(bill, u)

\* what the surplus rule prescribes for one bill, seen from A towards B
SurplusTerm(bill, A, B) ==
    LET shareA == calculate_user_owed_for_bill(bill, A)
        shareB == calculate_user_owed_for_bill(bill, B)
    IN IF shareA > 0 \/ shareB > 0
       THEN (IF Surplus(bill, B) > 0 /\ shareA > 0
             THEN Min(Surplus(bill, B), shareA) ELSE 0)
            - (IF Surplus(bill, A) > 0 /\ shareB > 0
               THEN Min(Surplus(bill, A), shareB) ELSE 0)
       ELSE 0

\* the surplus rule summed over the bills of a table
SurplusTotal(table, A, B) ==
    SumSeq([i \in 1..Len(table) |-> SurplusTerm(table[i], A, B)])

\* the running total the rule prescribes over the stored payments and bills
Reconstruction(A, B) ==
    PaidFromTo(B, A) - PaidFromTo(A, B) + SurplusTotal(bills, A, B)

\* the call has run both loops and is about to round its running total
BeforeRounding == pc = "bills" /\ group_bills = <<>>

\* C11: before the final rounding, the running total of
\* calculate_balance_between_two_users(A, B) with A # B equals the payments
\* B -> A minus the payments A -> B, plus over every bill where A or B has a
\* positive share min(B's surplus, A's share) when both are positive, minus
\* min(A's surplus, B's share) when both are positive, the surplus being the
\* user's initial payments on the bill minus the user's own share.
BilateralReconstruction ==
    BeforeRounding => u1_owes_u2 = Reconstruction(user1_id, user2_id)

\* C12: the value returned by calculate_balance_between_two_users is the
\* running total rounded to a whole currency unit with round-half-up, for every
\* running total, those ending in exactly .5 and negative ones included.
BilateralRounding ==
    [][BeforeRounding /\ pc' = "returned"
          => u1_owes_u2' = quantize_one_half_up(u1_owes_u2)]_vars

\* every stored bill and payment names current members only
OnlyBetweenMembers ==
    /\ \A i \in 1..Len(bills) :
          bill_participant_ids(bills[i]) \cup UserIds(bills[i].initial_payments)
              \subseteq MemberIds
    /\ \A i \in 1..Len(payments) :
          {payments[i].payer_id, payments[i].payee_id} \subseteq MemberIds

\* x and y differ by no more than the rounding to a whole unit allows
WithinRounding(x, y) == 2 * Abs(x - y) <= Unit

\* the two-user balance of every ordered pair of members agrees with balances
AgreesWith(balances) ==
    \A A, B \in MemberIds :
        A # B =>
            LET between == calculate_balance_between_two_users(bills, payments, A, B)
            IN /\ WithinRounding(between, balance_or_zero(balances, A))
               /\ WithinRounding(between, -balance_or_zero(balances, B))

\* C13: in a group with exactly two members A and B, after any sequence of
\* accepted bills and payments, calculate_balance_between_two_users(A, B)
\* equals the net balance calculate_group_net_balances gives A, and the
\* negation of B's, up to the final rounding to a whole unit.
TwoMemberAgreement ==
    (Cardinality(MemberIds) = 2 /\ OnlyBetweenMembers) => AgreesWith(NetBalances)

\* C18: for every bill the call looks at and each of its two users, the share
\* it uses equals calculate_user_owed_for_bill(bill, user), the scale-2 share
\* used by calculate_group_net_balances.
SingleShareSource ==
    (pc = "bills" /\ group_bills # <<>>) =>
        \A u \in {user1_id, user2_id} :
            get_user_share_for_bill(Head(group_bills), u)
                = calculate_user_owed_for_bill(Head(group_bills), u)

\* what the loop body adds over every stored bill of the group
EveryBillTotal(A, B) ==
    SumSeq([i \in 1..Len(bills) |-> bill_contribution(bills[i], A, B)])

\* C19: calculate_balance_between_two_users takes every bill of the group into
\* account, however many there are: an eleventh or later bill changes the
\* result as the surplus rule prescribes and no older bill is dropped.
BilateralCoverage ==
    BeforeRounding =>
        u1_owes_u2 = PaidFromTo(user2_id, user1_id) - PaidFromTo(user1_id, user2_id)
                     + EveryBillTotal(user1_id, user2_id)

InsertAt(s, x, k) == SubSeq(s, 1, k) \o <<x>> \o SubSeq(s, k + 1, Len(s))

RECURSIVE OrdersOf(_)
\* the orders in which the rows of a table can be listed
OrdersOf(s) ==
    IF s = <<>> THEN {<<>>}
    ELSE {InsertAt(p, Head(s), k) : p \in OrdersOf(Tail(s)), k \in 0..(Len(s) - 1)}

\* the aggregation gives balances whatever the order of the two tables
SameInEveryOrder(balances) ==
    \A bill_table \in OrdersOf(bills), payment_table \in OrdersOf(payments) :
        calculate_group_net_balances(members, bill_table, payment_table) = balances

\* C20: the map returned by calculate_group_net_balances is the same for every
\* permutation of the group's bills and every permutation of its payments.
\* (The stored rows do not change while a two-user call runs: the orders are
\* compared at its two ends.)
OrderIndependence ==
    pc \in {"called", "returned"} => SameInEveryOrder(NetBalances)

\* two different bills and two different payments, listed in the opposite order
OrderIndependenceWitness ==
    /\ pc = "returned"
    /\ Len(bills) = 2
    /\ bills[1] # bills[2]
    /\ Len(payments) = 2
    /\ payments[1] # payments[2]
    /\ calculate_group_net_balances(members, Reverse(bills), Reverse(payments))
           = NetBalances
    /\ \E i \in 1..Len(NetBalances) : NetBalances[i].amount # 0

\* C26: for two distinct users the returned balance of (A, B) is the negation
\* of the balance of (B, A) over the same stored rows
BilateralAntisymmetry ==
    (pc = "returned" /\ user1_id # user2_id)
        => u1_owes_u2
             = -calculate_balance_between_two_users(bills, payments, user2_id, user1_id)

\* a call for two distinct users has returned a balance that is not zero, and
\* its running total was not a whole number before the last rounding
BilateralAntisymmetryWitness ==
    /\ pc = "returned"
    /\ user1_id # user2_id
    /\ u1_owes_u2 # 0
    /\ running_total(bills, payments, user1_id, user2_id) % Unit # 0

---------------------------------------------------------------------------
(* Properties of the balances endpoint (specification SpecCache) *)

\* C14: every response of the group balances endpoint equals the aggregation
\* over the bills, payments and members stored at the time of the request: a
\* bill or payment recorded before the request is reflected in its result, and
\* no stored or cached balance is served.
RecomputedOnDemand ==
    balances_response.present => balances_response.value = NetBalances

---------------------------------------------------------------------------
(* Properties of the planner (specification SpecPlanner) *)

\* every balance of the map is a Money value: a multiple of 0.01
IsMoneyMap(balances) == \A i \in 1..Len(balances) : balances[i].amount % Cent = 0

\* the entry of a list with t taken off, dropped when nothing remains
Remaining(list, t) ==
    IF Head(list).amount = t THEN Tail(list)
    ELSE <<[Head(list) EXCEPT !.amount = @ - t]>> \o Tail(list)

RECURSIVE GreedyWalk(_, _)
\* the two-cursor walk: pair the first debtor and the first creditor that have
\* something remaining for the smaller of the two remainders
GreedyWalk(ds, cs) ==
    IF ds = <<>> \/ cs = <<>> THEN <<>>
    ELSE LET t == IF Head(ds).amount <= Head(cs).amount
                  THEN Head(ds).amount ELSE Head(cs).amount
         IN <<[payer_id |-> Head(ds).user_id, payee_id |-> Head(cs).user_id,
               amount |-> t]>>
            \o GreedyWalk(Remaining(ds, t), Remaining(cs, t))

PositiveEntry(e) == e.amount > 0

NegativeEntry(e) == e.amount < 0

Negated(list) == [i \in 1..Len(list) |-> [list[i] EXCEPT !.amount = -@]]

\* the walk over the debtors and creditors of a map in its iteration order
GreedyPlan(balances) ==
    GreedyWalk(SelectSeq(balances, PositiveEntry),
               Negated(SelectSeq(balances, NegativeEntry)))

\* balances {A: 50.00, B: -20.00, C: -30.00}
OneDebtorTwoCreditors ==
    <<[user_id |-> 1, amount |-> 50000], [user_id |-> 2, amount |-> -20000],
      [user_id |-> 3, amount |-> -30000]>>

OneDebtorTwoCreditorsPlan ==
    calculate_suggested_settlements(OneDebtorTwoCreditors).suggested_payments

\* C4: for a map of Money balances, the payments returned are those of the
\* two-cursor walk over the debtors and the creditors in the map's iteration
\* order, each pairing the current debtor with the current creditor for the
\* smaller remainder; {A: 50.00, B: -20.00, C: -30.00} gives exactly
\* [A->B 20.00, A->C 30.00].
GreedyMatching ==
    /\ (pc = "done" /\ IsMoneyMap(net_balances)) =>
           suggested_payments = GreedyPlan(net_balances)
    /\ (pc = "loop" /\ IsMoneyMap(net_balances)) =>
           /\ Len(suggested_payments) <= Len(GreedyPlan(net_balances))
           /\ suggested_payments =
                  SubSeq(GreedyPlan(net_balances), 1, Len(suggested_payments))
    /\ OneDebtorTwoCreditorsPlan
           = <<[payer_id |-> 1, payee_id |-> 2, amount |-> 20000],
               [payer_id |-> 1, payee_id |-> 3, amount |-> 30000]>>

\* the run on {A: 50.00, B: -20.00, C: -30.00} has returned its two payments
GreedyMatchingWitness ==
    /\ pc = "done"
    /\ net_balances = OneDebtorTwoCreditors
    /\ Len(suggested_payments) = 2

\* the iteration about to run pairs a debtor and a creditor for at most 0.005
DustStep ==
    /\ pc = "loop"
    /\ debtor_idx <= Len(debtor_list)
    /\ creditor_idx <= Len(creditor_list)
    /\ \/ debtor_list[debtor_idx].amount <= Dust
       \/ creditor_list[creditor_idx].amount <= Dust

\* C5: every payment of the list is strictly greater than 0.005, and an
\* iteration whose transfer is at or below 0.005 adds no payment to the list.
DustSuppression ==
    [][/\ \A i \in 1..Len(suggested_payments') : suggested_payments'[i].amount > Dust
       /\ DustStep => suggested_payments' = suggested_payments]_vars

\* a run that emitted one payment and then skipped a transfer of 0.004
DustSuppressionWitness ==
    /\ pc = "done"
    /\ net_balances = <<[user_id |-> 1, amount |-> -20006],
                        [user_id |-> 2, amount |-> 20000],
                        [user_id |-> 3, amount |-> 4]>>
    /\ debtor_idx = 3
    /\ Len(suggested_payments) = 1

\* n: the number of non-zero balances of the map
NonZeroCount(balances) ==
    Cardinality({i \in 1..Len(balances) : balances[i].amount # 0})

\* C6: a map with n non-zero balances yields at most n - 1 payments, and none
\* when every balance is zero.
TransferBound ==
    /\ NonZeroCount(net_balances) = 0 => suggested_payments = <<>>
    /\ NonZeroCount(net_balances) > 0 =>
           Len(suggested_payments) <= NonZeroCount(net_balances) - 1

\* a finished run on three non-zero balances that needed both payments
TransferBoundWitness ==
    /\ pc = "done"
    /\ net_balances = <<[user_id |-> 1, amount |-> -50000],
                        [user_id |-> 2, amount |-> 20000],
                        [user_id |-> 3, amount |-> 30000]>>
    /\ Len(suggested_payments) = NonZeroCount(net_balances) - 1

\* C15: for every input balance map, those whose first matched transfer is at
\* or below the dust threshold included, calculate_suggested_settlements stops
\* only by returning its list once the debtor list or the creditor list is
\* exhausted; it never raises.
PlannerTermination ==
    \/ pc \in {"start", "loop"}
    \/ pc = "done" /\ ~loop_condition(PlannerState)

\* an iteration that skips its transfer and completes
SkippedStep ==
    /\ pc = "loop"
    /\ loop_condition(PlannerState)
    /\ ~exceeds_dust(step_transfer(PlannerState))
    /\ pc' = "loop"

\* C16: in any step of calculate_suggested_settlements whose transfer is at or
\* below the dust threshold and is not emitted, the debtor cursor advances
\* exactly when the current debtor's remaining amount is <= 0.005 and the
\* creditor cursor advances exactly when the current creditor's remaining
\* amount is <= 0.005; an entry with more than 0.005 remaining is never skipped.
CursorAdvanceOnSkip ==
    [][SkippedStep =>
          /\ debtor_idx' =
                 IF debtor_list[debtor_idx].amount <= Dust
                 THEN debtor_idx + 1 ELSE debtor_idx
          /\ creditor_idx' =
                 IF creditor_list[creditor_idx].amount <= Dust
                 THEN creditor_idx + 1 ELSE creditor_idx]_vars

\* C17: every amount emitted by calculate_suggested_settlements equals the
\* step's transfer rounded to 2 decimal places with round-half-up, for every
\* transfer, those with a third decimal digit of exactly 5 (0.015, 0.025)
\* included.
EmittedRounding ==
    [][Len(suggested_payments') = Len(suggested_payments) + 1 =>
          suggested_payments'[Len(suggested_payments')].amount
              = quantize_half_up(step_transfer(PlannerState))]_vars
---------------------------------------------------------------------------
(* Properties of empty inputs, validation and membership (specification Spec) *)

\* a group without member rows
NoMembers == [u \in {} |-> "member"]

\* balances has exactly the keys ids, each with amount 0
AllZeroOver(balances, ids) ==
    /\ DictKeys(balances) = ids
    /\ \A i \in 1..Len(balances) : balances[i].amount = 0

\* the planner returns, and returns the empty list, for balances
PlanIsEmpty(balances) ==
    LET plan == calculate_suggested_settlements(balances)
    IN plan.pc = "done" /\ plan.suggested_payments = <<>>

\* the balances of the stored tables for a group that has no member left
NoMemberBalances == calculate_group_net_balances(NoMembers, bills, payments)

\* C21: for a group with members but no bills and no payments,
\* calculate_group_net_balances returns 0.00 for every member, and for a group
\* with no members it returns an empty map; neither raises, and the settlement
\* plan computed from the result is empty.
EmptyInputs ==
    /\ (bills = <<>> /\ payments = <<>>) =>
           (AllZeroOver(NetBalances, MemberIds) /\ PlanIsEmpty(NetBalances))
    /\ NoMemberBalances = <<>>
    /\ PlanIsEmpty(NoMemberBalances)

\* a group of two after a departure, with nothing stored
EmptyInputsWitness ==
    /\ bills = <<>>
    /\ payments = <<>>
    /\ Cardinality(MemberIds) = 2
    /\ Len(NetBalances) = 2
    /\ AllZeroOver(NetBalances, MemberIds)
\* the sum of the amounts of a list of bill parts
PartsTotal(bill_parts) ==
    SumSeq([i \in 1..Len(bill_parts) |-> bill_parts[i].amount_owed])

\* the sum of the amounts of a list of initial payments
InitialPaymentsTotal(initial_payments) ==
    SumSeq([i \in 1..Len(initial_payments) |-> initial_payments[i].amount_paid])

\* parts within 0.01 of the total for an exact split, payments within the total
SplitTotalsValid(split_method, total_amount, initial_payments, bill_parts) ==
    /\ split_method = "exact" => Abs(PartsTotal(bill_parts) - total_amount) <= Cent
    /\ InitialPaymentsTotal(initial_payments) <= total_amount

\* C22: every bill with split method exact that validate_splits accepts has
\* bill parts whose amounts sum to the bill total within the 0.01 tolerance,
\* and every accepted bill has total initial payments not exceeding the bill
\* total; this holds of the parsed payloads and of every stored bill.
ExactSplitValidity ==
    /\ \A b \in ParsedBillInputs :
           SplitTotalsValid(b.split_method, b.total_amount, b.initial_payments,
                            b.bill_parts)
    /\ \A i \in 1..Len(bills) :
           SplitTotalsValid(bills[i].split_method, bills[i].total_amount,
                            bills[i].initial_payments, bills[i].bill_parts)

\* an exact bill fronted in full is stored
ExactSplitValidityWitness ==
    \E i \in 1..Len(bills) :
        /\ bills[i].split_method = "exact"
        /\ Len(bills[i].bill_parts) = 2
        /\ PartsTotal(bills[i].bill_parts) = bills[i].total_amount
        /\ InitialPaymentsTotal(bills[i].initial_payments) = bills[i].total_amount
\* the users a stored bill refers to through its initial payments, its bill
\* parts and its item splits
ReferencedUsers(bill) ==
    UserIds(bill.initial_payments) \cup bill_participant_ids(bill)

\* bill row k was written by the step: it is new or differs from the old row
WrittenByStep(k) ==
    /\ Len(bills') >= Len(bills)
    /\ k \in 1..Len(bills')
    /\ (k > Len(bills) \/ bills'[k] # bills[k])

\* C24: a bill creation or update is accepted only if every user referenced
\* by its initial payments, its bill parts (exact split) or its item splits is
\* a current member of the group; otherwise nothing is stored or changed.
ParticipantsAreMembers ==
    [][\A k \in 1..MaxBills :
          WrittenByStep(k) => ReferencedUsers(bills'[k]) \subseteq MemberIds]_vars

---------------------------------------------------------------------------
(* Properties of item bills (specification SpecIntake) *)

\* the sum of the split quantities of a stored item
StoredSplitQuantity(item) ==
    SumSeq([j \in 1..Len(item.bill_item_splits) |-> item.bill_item_splits[j].quantity])

\* the shares of the users who have a part or a split on the bill, summed
ParticipantSharesTotal(bill) ==
    SumSet(bill_participant_ids(bill),
           [u \in bill_participant_ids(bill) |-> calculate_user_owed_for_bill(bill, u)])

\* each item's split quantities sum to its quantity, and the participants'
\* shares sum to the price of the items
SplitsCoverItems(bill) ==
    /\ \A i \in 1..Len(bill.items) :
           StoredSplitQuantity(bill.items[i]) = bill.items[i].quantity
    /\ ParticipantSharesTotal(bill) = total_price(bill.items)

\* C23 as stated: every accepted item bill has prices that sum to exactly
\* total_amount and split quantities that sum to each item's quantity, so the
\* participants' shares sum to the bill total.
ItemSplitExact ==
    \A i \in 1..Len(bills) :
        bills[i].split_method = "item" =>
            /\ total_price(bills[i].items) = bills[i].total_amount
            /\ SplitsCoverItems(bills[i])
            /\ ParticipantSharesTotal(bills[i]) = bills[i].total_amount

\* C23 amended: every accepted item bill has prices that sum to total_amount
\* within 0.01 and split quantities that sum to each item's quantity, so the
\* participants' shares sum to the price of the items, within 0.01 of the total.
ItemSplitValidity ==
    \A i \in 1..Len(bills) :
        bills[i].split_method = "item" =>
            /\ Abs(total_price(bills[i].items) - bills[i].total_amount) <= Cent
            /\ SplitsCoverItems(bills[i])
            /\ Abs(ParticipantSharesTotal(bills[i]) - bills[i].total_amount) <= Cent

\* a stored item bill whose prices sum to 0.01 less than its total
ItemSplitValidityWitness ==
    \E i \in 1..Len(bills) :
        /\ bills[i].split_method = "item"
        /\ bills[i].total_amount = 20010
        /\ total_price(bills[i].items) = 20000
        /\ ParticipantSharesTotal(bills[i]) = 20000
---------------------------------------------------------------------------
(* Properties of departures (specification SpecConcurrent) *)

\* C25: a membership row is deleted only for a user whose net balance over
\* the bills and payments stored at the moment of the deletion is zero
NoDepartureWithDebt ==
    [][\A u \in MemberIds :
          u \notin DOMAIN members' => balance_or_zero(NetBalances, u) = 0]_vars
---------------------------------------------------------------------------
(* Properties of the returned plan on exact inputs (specification SpecPlanner) *)

\* a map of multiples of 0.01 that sum to zero
ExactZeroSumMap(balances) == IsMoneyMap(balances) /\ DictSum(balances) = 0

\* every balance after all payments of the plan are applied: the payer's
\* balance minus the amount, the payee's balance plus the amount
BalanceAfterPlan(balances, plan, u) ==
    DictGet(balances, u) - PlanPaidBy(plan, u) + PlanReceivedBy(plan, u)

\* C27: for a map of multiples of 0.01 that sum to zero the call returns, and
\* applying the returned payments leaves every balance exactly zero, each
\* payment going from a user with a positive balance to a different user with a
\* negative balance
ExactSettlement ==
    (pc \notin {"start", "loop"} /\ ExactZeroSumMap(net_balances)) =>
        /\ pc = "done"
        /\ \A u \in DictKeys(net_balances) :
               BalanceAfterPlan(net_balances, suggested_payments, u) = 0
        /\ \A i \in 1..Len(suggested_payments) :
               /\ suggested_payments[i].payer_id # suggested_payments[i].payee_id
               /\ suggested_payments[i].payer_id \in DictKeys(net_balances)
               /\ suggested_payments[i].payee_id \in DictKeys(net_balances)
               /\ DictGet(net_balances, suggested_payments[i].payer_id) > 0
               /\ DictGet(net_balances, suggested_payments[i].payee_id) < 0

\* a finished run on two debtors and two creditors whose balances are whole
\* cents and sum to zero
ExactSettlementWitness ==
    /\ pc = "done"
    /\ ExactZeroSumMap(net_balances)
    /\ Len(debtors_of(net_balances)) = 2
    /\ Len(creditors_of(net_balances)) = 2
    /\ Len(suggested_payments) >= 2
---------------------------------------------------------------------------
(* Properties of payment creation (specification SpecDurable) *)

\* the step in which create_new_payment returns its payment
SuccessAnswered == pc = "payment_logged" /\ pc' = "idle"

\* a table without its last row
WithoutLast(table) == SubSeq(table, 1, Len(table) - 1)

\* the net balances over the stored rows subtract the row's amount from its
\* payer and add it to its payee
CountedInBalances(mem, bill_table, payment_table, row) ==
    LET with == calculate_group_net_balances(mem, bill_table, payment_table)
        without == calculate_group_net_balances(mem, bill_table,
                                                WithoutLast(payment_table))
    IN /\ balance_or_zero(with, row.payer_id)
            = balance_or_zero(without, row.payer_id) - row.amount
       /\ balance_or_zero(with, row.payee_id)
            = balance_or_zero(without, row.payee_id) + row.amount

\* C28: when create_new_payment answers 201 the payment is a stored row, no
\* longer pending in the request's session, and the net balances computed from
\* the stored rows subtract its amount from the payer and add it to the payee
PaymentDurability ==
    [][SuccessAnswered =>
          /\ payment_response'.present
          /\ payment_response'.value.status = 201
          /\ in_transaction' = <<>>
          /\ Len(payments') > 0
          /\ payments'[Len(payments')] = payment_response'.value.payment
          /\ CountedInBalances(members', bills', payments',
                               payment_response'.value.payment)]_vars

\* a 201 has been answered for a payment in a group that has a bill
PaymentDurabilityWitness ==
    /\ pc = "idle"
    /\ payment_response.present
    /\ payment_response.value.status = 201
    /\ payment_response.value.payment \in {payments[i] : i \in 1..Len(payments)}
    /\ bills # <<>>
---------------------------------------------------------------------------
(* Properties of roles (specification SpecRoles) *)

Owners == {u \in MemberIds : members[u] = "owner"}

\* C29: after any sequence of membership and role requests the group has
\* exactly one member with role owner
SingleOwner == Cardinality(Owners) = 1

\* the creator has handed the ownership over and has since been demoted to
\* member by the new owner
SingleOwnerWitness ==
    /\ 1 \in MemberIds
    /\ members[1] = "member"
    /\ Cardinality(MemberIds) = 3
---------------------------------------------------------------------------
(* Properties of departures in the ledger (specification Spec) *)

\* a step of leave_group or remove_member: a membership row is deleted
DepartureStep ==
    /\ DOMAIN members' # MemberIds
    /\ DOMAIN members' \subseteq MemberIds

\* C30: when a member whose net balance is zero leaves or is removed, every
\* remaining member's net balance computed right after equals its value of
\* right before, whatever bills and payments are stored
DepartureFrame ==
    [][DepartureStep =>
          /\ \A u \in MemberIds \ DOMAIN members' :
                 balance_or_zero(NetBalances, u) = 0
          /\ \A v \in DOMAIN members' :
                 balance_or_zero(
                     calculate_group_net_balances(members', bills', payments'), v)
                   = balance_or_zero(NetBalances, v)]_vars

\* a user who fronted a bill and received a payment that settled it is gone,
\* while remaining members still have balances that are not zero
DepartureFrameWitness ==
    \E u \in Users \ MemberIds :
        /\ FrontedBy(u) > 0
        /\ ReceivedBy(u) > 0
        /\ balance_or_zero(AllUsersBalances, u) = 0
        /\ \E v \in MemberIds : balance_or_zero(NetBalances, v) # 0

===========================================================================
